---- MODULE Spec2Model ----
(***************************************************************************)
(* The microanimation orchestrator of src/src/lib/actions.ts: one closure  *)
(* per DOM node holding  observer, animated, animation, hoverAnimation,    *)
(* placeholder, hovered  and the configuration  transition, once, mode.    *)
(*                                                                         *)
(* The platform is modelled by what the code uses of it:                   *)
(*   - the DOM: the set of placeholder elements attached to the node's     *)
(*     parent, each placeholder's style.display, the node's inline         *)
(*     style.display and the t=0 keyframe assigned to the node's style.    *)
(*     The node itself is never removed by the orchestrator                *)
(*     (replaceChild(node, placeholder) re-inserts it), so it stays in     *)
(*     the DOM throughout;                                                 *)
(*   - element.animate(): a list of native animations, each running,      *)
(*     finished or cancelled, with the onfinish handler the code set;      *)
(*   - IntersectionObserver: a set of connected observers, each of which   *)
(*     may deliver an intersecting entry (also for a target that has been  *)
(*     detached, as a simulated entry does);                               *)
(*   - tick(): a FIFO queue of suspended start_animation calls.            *)
(* tick() resolves in a microtask: DOM events, observer entries and        *)
(* animation finish events are tasks and are delivered only when no        *)
(* start_animation call is suspended, while update() and destroy() are     *)
(* called by the host framework from its own flush and may arrive while    *)
(* calls are suspended.                                                    *)
(***************************************************************************)
EXTENDS Naturals, Sequences, FiniteSets, TLC

VARIABLES
    transition,     \* the configured transition (with its params): a descriptor id
    once,           \* configuration
    mode,           \* configuration
    observer,       \* let observer: 0 = undefined, else the observer's id
    animated,       \* let animated
    animation,      \* let animation: 0 = undefined, else the handle animate() returned
    hoverAnimation, \* let hoverAnimation: 0 = undefined, else a native animation
    placeholder,    \* let placeholder: 0 = undefined, else the element's id
    hovered,        \* let hovered
    listeners,      \* mouseenter/mouseleave handlers are registered on the node
    connected,      \* the observers that are observing (not disconnected)
    placeholders,   \* placeholders[p]: style.display of placeholder element p
    attached,       \* the placeholder elements that are children of the node's parent
    nodeDisplay,    \* node.style.display ("" = not set inline)
    nodeKeyframe,   \* descriptor whose t=0 keyframe was assigned to node.style
    anims,          \* the native animations created on the node, in creation order
    pending,        \* suspended start_animation calls, in the order they resume:
                    \* the await they are at, the descriptor they computed and
                    \* whether they took the viewport branch
    threw,          \* the last operation threw (or its promise was rejected)
    destroyCalls,   \* destroy() calls so far: 0, 1, or 2 for two or more
    updates,        \* number of update() calls so far
    last,           \* name of the last operation (observation only)
    driver,         \* one call of animate() followed on its own: its options, its
                    \* stage, the keyframes it has built and the callbacks it made
    translator      \* one call of the Keyframe Translator: its input and its outcome

vars == <<transition, once, mode, observer, animated, animation, hoverAnimation,
          placeholder, hovered, listeners, connected, placeholders, attached,
          nodeDisplay, nodeKeyframe, anims, pending, threw, destroyCalls, updates, last,
          driver, translator>>

\* ---------------------------------------------------------------- bounds

\* Longest css text under test, in characters.
MaxLen == 3
\* Largest duration (ms) a descriptor under test asks for.
MaxDuration == 34
\* update() calls during one run.
MaxUpdates == 1

\* No call of animate() is followed.
NoDriver == [stage |-> "none"]

\* No call of the Keyframe Translator is followed.
NoTranslator == [op |-> "idle"]

\* Native animations created on the node during one run.
MaxAnims == 3

\* The transitions a configuration can name (two entries of the catalog); a
\* transition also stands for the descriptor it returns for the node.
Transitions == {"fadeSlide", "popScale"}
\* No descriptor.
NoTransition == "none"
Modes == {"viewport", "hover", "immediate"}
Configs == [transition : Transitions, once : BOOLEAN, mode : Modes]

\* The display value the node computes to when no inline display is set.
NaturalDisplay == "block"

\* ------------------------------------------------------ the closure state

State ==
    [transition |-> transition, once |-> once, mode |-> mode, observer |-> observer,
     animated |-> animated, animation |-> animation,
     hoverAnimation |-> hoverAnimation, placeholder |-> placeholder,
     hovered |-> hovered, listeners |-> listeners, connected |-> connected,
     placeholders |-> placeholders, attached |-> attached,
     nodeDisplay |-> nodeDisplay, nodeKeyframe |-> nodeKeyframe, anims |-> anims,
     pending |-> pending, threw |-> threw]

Install(s) ==
    /\ transition' = s.transition
    /\ once' = s.once
    /\ mode' = s.mode
    /\ observer' = s.observer
    /\ animated' = s.animated
    /\ animation' = s.animation
    /\ hoverAnimation' = s.hoverAnimation
    /\ placeholder' = s.placeholder
    /\ hovered' = s.hovered
    /\ listeners' = s.listeners
    /\ connected' = s.connected
    /\ placeholders' = s.placeholders
    /\ attached' = s.attached
    /\ nodeDisplay' = s.nodeDisplay
    /\ nodeKeyframe' = s.nodeKeyframe
    /\ anims' = s.anims
    /\ pending' = s.pending
    /\ threw' = s.threw

Initial(s) ==
    /\ transition = s.transition
    /\ once = s.once
    /\ mode = s.mode
    /\ observer = s.observer
    /\ animated = s.animated
    /\ animation = s.animation
    /\ hoverAnimation = s.hoverAnimation
    /\ placeholder = s.placeholder
    /\ hovered = s.hovered
    /\ listeners = s.listeners
    /\ connected = s.connected
    /\ placeholders = s.placeholders
    /\ attached = s.attached
    /\ nodeDisplay = s.nodeDisplay
    /\ nodeKeyframe = s.nodeKeyframe
    /\ anims = s.anims
    /\ pending = s.pending
    /\ threw = s.threw

\* getComputedStyle(node).display
ComputedDisplay(s) == IF s.nodeDisplay = "" THEN NaturalDisplay ELSE s.nodeDisplay

\* ------------------------------------------------------ Animation Driver

\* element.animate(keyframes, options): a new running native animation.
NativeAnimation(kind, config, onfinish) ==
    [kind |-> kind, trans |-> config, state |-> "running", reversed |-> FALSE,
     onfinish |-> onfinish, main |-> 0]

\* animate(element, options, onFinish): plays the delay stage; the handle it
\* returns is identified by the index of its delay-stage animation.
animate(s, config) ==
    [s EXCEPT !.anims = Append(@, NativeAnimation("delay", config, "stage"))]

\* The native animation the handle's closure variable `animation` refers to.
HandleNative(s, h) == IF s.anims[h].main # 0 THEN s.anims[h].main ELSE h

\* handle.abort(): cancel, drop the effect, neutralise onfinish.
abort(s, h) ==
    [s EXCEPT !.anims[HandleNative(s, h)].state = "cancelled",
              !.anims[HandleNative(s, h)].trans = NoTransition,
              !.anims[HandleNative(s, h)].onfinish = "noop"]

\* animation?.abort()
abort_current(s) == IF s.animation # 0 THEN abort(s, s.animation) ELSE s

\* onfinish of the delay stage: start the main stage on the same handle.
delay_onfinish(s, a) ==
    LET s1 == [s EXCEPT !.anims = Append(@, NativeAnimation("main", s.anims[a].trans, "done"))]
    IN  [s1 EXCEPT !.anims[a].main = Len(s1.anims)]

\* The onFinish callback start_animation hands to animate().
onFinish(s) ==
    [s EXCEPT !.animation = 0,
              !.animated = IF s.mode = "hover" THEN FALSE ELSE @]

\* ------------------------------------------------------------ orchestrator

\* start_animation() without its guard `if (animated && once) return`.
start_animation_unguarded(s) ==
    LET s1 == [s EXCEPT !.animated = TRUE]
        config == s.transition
    IN  IF s.mode = "viewport"
        THEN IF s.placeholder \in s.attached
             THEN [s1 EXCEPT !.attached = @ \ {s.placeholder},
                             !.pending = Append(@, [pc |-> "tick1", config |-> config, viewport |-> TRUE])]
             ELSE [s1 EXCEPT !.threw = TRUE]
        ELSE [s1 EXCEPT !.pending = Append(@, [pc |-> "tick2", config |-> config, viewport |-> FALSE])]

\* start_animation() up to its first await.
start_animation(s) ==
    IF s.animated /\ s.once THEN s
    ELSE LET s1 == [s EXCEPT !.animated = TRUE]
             config == s.transition
         IN  IF s.mode = "viewport"
             THEN IF s.placeholder \in s.attached
                  THEN [s1 EXCEPT !.attached = @ \ {s.placeholder},
                                  !.pending = Append(@, [pc |-> "tick1", config |-> config, viewport |-> TRUE])]
                  \* removeChild of an element that is no child: NotFoundError
                  ELSE [s1 EXCEPT !.threw = TRUE]
             ELSE [s1 EXCEPT !.pending = Append(@, [pc |-> "tick2", config |-> config, viewport |-> FALSE])]

\* start_animation() resumed after the tick inside the viewport branch.
start_animation_tick1(s, config) ==
    [s EXCEPT !.nodeDisplay = s.placeholders[s.placeholder],
              !.nodeKeyframe = config,
              !.pending = Append(@, [pc |-> "tick2", config |-> config, viewport |-> TRUE])]

\* start_animation() resumed after its last tick.
start_animation_tick2(s, config) ==
    LET s1 == animate(abort_current(s), config)
    IN  [s1 EXCEPT !.animation = Len(s1.anims)]

\* start_hover_animation()
start_hover_animation(s) ==
    LET s1 == [s EXCEPT !.anims = Append(@, NativeAnimation("hover", s.transition, "tick"))]
    IN  [s1 EXCEPT !.hoverAnimation = Len(s1.anims)]

\* handle_hover_animation() without its guard `if (!hovered)`.
handle_hover_animation_unguarded(s) == start_hover_animation([s EXCEPT !.hovered = TRUE])

\* handle_hover_animation(): the mouseenter listener.
handle_hover_animation(s) ==
    IF ~s.hovered THEN start_hover_animation([s EXCEPT !.hovered = TRUE]) ELSE s

\* Animation.reverse(): plays the animation in the other direction.
Reverse(s, a) == [s EXCEPT !.anims[a].reversed = ~@, !.anims[a].state = "running"]

\* reverse_animation() cancelling the hover animation instead of reversing it.
reverse_animation_cancels(s) ==
    IF ~s.hovered THEN s
    ELSE LET s1 == [s EXCEPT !.hovered = FALSE, !.animated = FALSE]
         IN  IF s1.hoverAnimation # 0
             THEN [s1 EXCEPT !.anims[s1.hoverAnimation].state = "cancelled",
                             !.anims[s1.hoverAnimation].onfinish = "noop"]
             ELSE s1

\* reverse_animation(): the mouseleave listener.
reverse_animation(s) ==
    IF ~s.hovered THEN s
    ELSE LET s1 == [s EXCEPT !.hovered = FALSE, !.animated = FALSE]
         IN  IF s1.hoverAnimation # 0
             THEN [Reverse(s1, s1.hoverAnimation) EXCEPT !.anims[s1.hoverAnimation].onfinish = "noop"]
             ELSE s1

\* setup()
setup(s) ==
    IF s.mode = "viewport"
    THEN LET p == Len(s.placeholders) + 1
         IN  [s EXCEPT !.placeholder = p,
                       !.placeholders = Append(@, ComputedDisplay(s)),
                       !.attached = @ \cup {p},
                       !.nodeDisplay = "none",
                       !.observer = p,
                       !.connected = @ \cup {p}]
    ELSE IF s.mode = "hover"
    THEN [s EXCEPT !.listeners = TRUE]
    ELSE start_animation(s)

\* The IntersectionObserver callback, for an intersecting entry.
observer_callback(s) ==
    LET s1 == start_animation(s)
    IN  IF s1.once THEN [s1 EXCEPT !.connected = @ \ {s1.observer}] ELSE s1

\* destroy()
destroy(s) ==
    LET s1 == [abort_current(s) EXCEPT !.connected = @ \ {s.observer},
                                       !.listeners = FALSE]
    IN  IF s1.mode = "viewport"
        THEN [s1 EXCEPT !.attached = @ \ {s1.placeholder}]
        ELSE s1

\* update(newParams)
update(s, newParams) ==
    LET s1 == [abort_current(s) EXCEPT !.connected = @ \ {s.observer}]
    IN  setup([s1 EXCEPT !.transition = newParams.transition,
                         !.once = newParams.once,
                         !.mode = newParams.mode])

\* ----------------------------------------------------------------- actions

\* The closure's variables right after their declarations, before setup().
Declared(cfg) ==
    [transition |-> cfg.transition, once |-> cfg.once, mode |-> cfg.mode,
     observer |-> 0, animated |-> FALSE, animation |-> 0, hoverAnimation |-> 0,
     placeholder |-> 0, hovered |-> FALSE, listeners |-> FALSE, connected |-> {},
     placeholders |-> <<>>, attached |-> {}, nodeDisplay |-> "", nodeKeyframe |-> NoTransition,
     anims |-> <<>>, pending |-> <<>>, threw |-> FALSE]

\* microanimation(node, config): the declarations, then setup().
microanimation(cfg) == setup(Declared(cfg))

Init ==
    \E cfg \in Configs :
        /\ Initial(microanimation(cfg))
        /\ destroyCalls = 0
        /\ updates = 0
        /\ last = "attach"
        /\ driver = NoDriver
        /\ translator = NoTranslator

Quiet(s) == [s EXCEPT !.threw = FALSE]

\* An intersecting entry delivered by a connected observer.
Intersect ==
    /\ \E o \in connected : TRUE
    /\ pending = <<>>
    /\ Install(observer_callback(Quiet(State)))
    /\ last' = "intersect"
    /\ UNCHANGED <<destroyCalls, updates, driver, translator>>

\* A suspended start_animation call resumes.
ResumeTick ==
    /\ pending # <<>>
    /\ LET p == Head(pending)
           s == [Quiet(State) EXCEPT !.pending = Tail(@)]
       IN  IF p.pc = "tick1"
           THEN Install(start_animation_tick1(s, p.config))
           ELSE /\ Len(anims) < MaxAnims
                /\ Install(start_animation_tick2(s, p.config))
    /\ last' = "tick"
    /\ UNCHANGED <<destroyCalls, updates, driver, translator>>

\* The platform fires the finish event of a running native animation.
Finish ==
    \E a \in 1..Len(anims) :
        /\ pending = <<>>
        /\ anims[a].state = "running"
        /\ LET s == [Quiet(State) EXCEPT !.anims[a].state = "finished"]
           IN  IF s.anims[a].onfinish = "stage"
               THEN /\ Len(anims) < MaxAnims
                    /\ Install(delay_onfinish(s, a))
               ELSE IF s.anims[a].onfinish = "done"
               THEN Install(onFinish(s))
               ELSE Install(s)
        /\ last' = "finish"
        /\ UNCHANGED <<destroyCalls, updates, driver, translator>>

\* A mouseenter event on the node.
MouseEnter ==
    /\ pending = <<>>
    /\ (listeners /\ ~hovered) => Len(anims) < MaxAnims
    /\ Install(IF listeners THEN handle_hover_animation(Quiet(State)) ELSE Quiet(State))
    /\ last' = "mouseenter"
    /\ UNCHANGED <<destroyCalls, updates, driver, translator>>

\* A mouseleave event on the node.
MouseLeave ==
    /\ pending = <<>>
    /\ Install(IF listeners THEN reverse_animation(Quiet(State)) ELSE Quiet(State))
    /\ last' = "mouseleave"
    /\ UNCHANGED <<destroyCalls, updates, driver, translator>>

\* The host calls update(newParams).
Update ==
    /\ destroyCalls = 0
    /\ updates < MaxUpdates
    /\ \E cfg \in Configs : Install(update(Quiet(State), cfg))
    /\ updates' = updates + 1
    /\ last' = "update"
    /\ UNCHANGED <<destroyCalls, driver, translator>>

\* The host calls destroy().
Destroy ==
    /\ Install(destroy(Quiet(State)))
    /\ destroyCalls' = IF destroyCalls = 0 THEN 1 ELSE 2
    /\ UNCHANGED <<updates, driver, translator>>
    /\ last' = "destroy"

Next ==
    \/ Intersect
    \/ ResumeTick
    \/ Finish
    \/ MouseEnter
    \/ MouseLeave
    \/ Update
    \/ Destroy

Spec == Init /\ [][Next]_vars

\* The same program when every suspended start_animation call is resumed:
\* its ticks resolve.
FairSpec == Spec /\ WF_vars(ResumeTick)

\* ---------------------------------------------- the Animation Driver alone

\* duration when the descriptor gives none: `duration = 400`.
DefaultDuration == 400

\* The descriptors under test: what a transition function may return. A
\* duration is <<d>>, or <<>> when the descriptor gives none.
Descriptors ==
    [delay : {0, 200}, duration : {<<>>} \cup {<<d>> : d \in 0..MaxDuration},
     easing : {"unset", "quadIn"}, css : BOOLEAN, tick : BOOLEAN]

\* Math.ceil(duration / (1000 / 60)): 60 samples per second.
SampleCount(duration) == (duration * 60 + 999) \div 1000

\* The progress value 0 / 0.
NaN == <<0, 0>>

\* A progress value a / b.
Frac(a, b) ==
    IF b = 0 THEN NaN ELSE IF a = 0 THEN <<0, 1>> ELSE IF a = b THEN <<1, 1>> ELSE <<a, b>>

\* easing(i / n): linear when the descriptor gives no easing, else quadIn (t * t).
Eased(easing, i, n) == IF easing = "unset" THEN Frac(i, n) ELSE Frac(i * i, n * n)

\* 1 - t
Complement(t) == IF t = NaN THEN NaN ELSE Frac(t[2] - t[1], t[2])

\* css_to_keyframe(css(t, u)): the sampled style, named by its arguments.
Keyframe(t, u) == [t |-> t, u |-> u]

\* The keyframe of sample i of n: css(t, 1 - t) with t = easing(i / n).
Sample(easing, i, n) == Keyframe(Eased(easing, i, n), Complement(Eased(easing, i, n)))

\* The condition of the sampling loop of animate(): `i <= n`.
SampleContinue(i, n) == i <= n

\* animate(element, options, onFinish) up to its return: the options are
\* destructured with their defaults and the delay stage is played.
drive(d) ==
    [stage |-> "delay", native |-> "running",
     delay |-> d.delay,
     duration |-> IF d.duration = <<>> THEN DefaultDuration ELSE d.duration[1],
     easing |-> d.easing, css |-> d.css, tick |-> d.tick,
     n |-> 0, i |-> 0, keyframes |-> IF d.css THEN <<Keyframe(<<0, 1>>, <<1, 1>>), Keyframe(<<0, 1>>, <<1, 1>>)>> ELSE <<>>,
     log |-> <<"animate:delay">>, aborts |-> 0, hover |-> <<>>, initHover |-> <<>>]

\* The delay stage's onfinish up to its loop: keyframes = [], n computed.
driver_delay_onfinish(d) ==
    [d EXCEPT !.native = "finished", !.stage = "sampling", !.keyframes = <<>>,
              !.n = IF d.css THEN SampleCount(d.duration) ELSE 0, !.i = 0,
              !.log = Append(@, "finish:delay")]

\* A sampling loop whose turn neither samples nor counts.
driver_sample_stuck(d) == d

\* One turn of the sampling loop.
driver_sample(d) ==
    [d EXCEPT !.keyframes = Append(@, Sample(d.easing, d.i, d.n)), !.i = @ + 1]

\* After the loop: the main stage is played and its onfinish is set.
driver_play_main(d) ==
    [d EXCEPT !.stage = "main", !.native = "running", !.log = Append(@, "animate:main")]

\* A main stage's onfinish that calls onFinish() before the tick hook.
driver_main_onfinish_swapped(d) ==
    [d EXCEPT !.stage = "finished", !.native = "finished",
              !.log = Append(@, "finish:main") \o <<"onFinish">> \o
                      (IF d.tick THEN <<"tick">> ELSE <<>>)]

\* The main stage's onfinish: tickFn?.(1, 0), then onFinish().
driver_main_onfinish(d) ==
    [d EXCEPT !.stage = "finished", !.native = "finished",
              !.log = (IF d.tick THEN Append(Append(@, "finish:main"), "tick")
                       ELSE Append(@, "finish:main")) \o <<"onFinish">>]

\* An abort() that keeps referring to the animation of the delay stage.
driver_abort_first_only(d) == IF d.stage = "delay" THEN [d EXCEPT !.native = "cancelled"] ELSE d

\* handle.abort(): cancels the native animation `animation` refers to (that of
\* the delay stage, then that of the main stage) and neutralises its onfinish.
driver_abort(d) == [d EXCEPT !.native = "cancelled"]

\* start_hover_animation(): its keyframes, sampled from i = n down to i = 0.
RECURSIVE HoverSamples(_, _, _)
HoverSamples(easing, i, n) ==
    <<Sample(easing, i, n)>> \o (IF i = 0 THEN <<>> ELSE HoverSamples(easing, i - 1, n))

\* Hover keyframes sampled from i = 0 up to i = n.
hover_keyframes_forward(d) ==
    IF d.css
    THEN [k \in 1..(SampleCount(d.duration) + 1) |->
             Sample(d.easing, k - 1, SampleCount(d.duration))]
    ELSE <<>>

\* start_hover_animation(): the keyframes it plays.
hover_keyframes(d) ==
    IF d.css
    THEN HoverSamples(d.easing, SampleCount(d.duration), SampleCount(d.duration))
    ELSE <<>>

\* initHoverAnimation's start_animation(): the single keyframe css(1, 1), or
\* the node's computed style when the descriptor has no css.
init_hover_keyframes(d) ==
    IF d.css THEN <<Keyframe(<<1, 1>>, <<1, 1>>)>> ELSE <<[computed |-> TRUE]>>

\* The orchestrator is not followed while the driver is: its variables keep
\* the values of their declarations.
Idle ==
    /\ Install(Declared([transition |-> "fadeSlide", once |-> TRUE, mode |-> "hover"]))
    /\ UNCHANGED <<destroyCalls, updates, translator>>

DriverInit ==
    /\ Initial(Declared([transition |-> "fadeSlide", once |-> TRUE, mode |-> "hover"]))
    /\ destroyCalls = 0
    /\ updates = 0
    /\ last = "animate"
    /\ \E d \in Descriptors : driver = drive(d)
    /\ translator = NoTranslator

\* The platform fires the finish event of the delay stage.
DelayFinish ==
    /\ driver.stage = "delay"
    /\ driver.native = "running"
    /\ driver' = driver_delay_onfinish(driver)
    /\ last' = "finish"
    /\ Idle

\* The sampling loop takes one turn.
SampleStep ==
    /\ driver.stage = "sampling"
    /\ driver.css
    /\ SampleContinue(driver.i, driver.n)
    /\ driver' = driver_sample(driver)
    /\ last' = "sample"
    /\ Idle

\* The sampling loop is over (or there is no css): the main stage is played.
PlayMain ==
    /\ driver.stage = "sampling"
    /\ driver.css => ~SampleContinue(driver.i, driver.n)
    /\ driver' = driver_play_main(driver)
    /\ last' = "play"
    /\ Idle

\* The platform fires the finish event of the main stage.
MainFinish ==
    /\ driver.stage = "main"
    /\ driver.native = "running"
    /\ driver' = driver_main_onfinish(driver)
    /\ last' = "finish"
    /\ Idle

\* The caller calls abort() on the handle (never inside a running handler).
Abort ==
    /\ driver.stage \in {"delay", "main", "finished"}
    /\ driver' = [driver_abort(driver) EXCEPT !.aborts = IF @ = 0 THEN 1 ELSE 2]
    /\ last' = "abort"
    /\ Idle

\* The pointer enters a node whose hover animation start_hover_animation()
\* builds from the same descriptor.
HoverEnter ==
    /\ driver.hover = <<>>
    /\ driver' = [driver EXCEPT !.hover = <<hover_keyframes(driver)>>]
    /\ UNCHANGED last
    /\ Idle

\* The pointer enters a node under initHoverAnimation() with the same descriptor.
InitHoverEnter ==
    /\ driver.initHover = <<>>
    /\ driver' = [driver EXCEPT !.initHover = <<init_hover_keyframes(driver)>>]
    /\ UNCHANGED last
    /\ Idle

DriverNext ==
    \/ DelayFinish
    \/ SampleStep
    \/ PlayMain
    \/ MainFinish
    \/ Abort
    \/ HoverEnter
    \/ InitHoverEnter

\* The platform fires every finish event of an animation that is not
\* cancelled, and a running handler runs on.
DriverSpec ==
    /\ DriverInit
    /\ [][DriverNext]_vars
    /\ WF_vars(DelayFinish)
    /\ WF_vars(SampleStep)
    /\ WF_vars(PlayMain)
    /\ WF_vars(MainFinish)

\* ------------------------------------------------- the Keyframe Translator

\* Texts are sequences of characters. The characters the texts under test
\* are drawn from, and the texts of the documented examples.
Alphabet == {"a", "-", ":", ";", " "}

Texts(len) == UNION {[1..k -> Alphabet] : k \in 0..len}

ExampleTexts ==
    {<<"a", ":", "1", ";", "b", ":", "2", ";">>,
     <<"f", "l", "o", "a", "t", ":", "l", "e", "f", "t", ";">>,
     <<"o", "f", "f", "s", "e", "t", ":", "x", ";">>,
     <<"-", "-", "x", ":", "1", ";">>,
     <<"a", ";">>}

Lower ==
    <<"a", "b", "c", "d", "e", "f", "g", "h", "i", "j", "k", "l", "m",
      "n", "o", "p", "q", "r", "s", "t", "u", "v", "w", "x", "y", "z">>

Upper ==
    <<"A", "B", "C", "D", "E", "F", "G", "H", "I", "J", "K", "L", "M",
      "N", "O", "P", "Q", "R", "S", "T", "U", "V", "W", "X", "Y", "Z">>

\* String.prototype.toUpperCase on one character.
toUpperCase(c) ==
    IF \E k \in 1..Len(Lower) : Lower[k] = c
    THEN Upper[CHOOSE k \in 1..Len(Lower) : Lower[k] = c]
    ELSE c

\* String.prototype.split with a one-character separator.
RECURSIVE split(_, _)
split(s, sep) ==
    IF \E k \in 1..Len(s) : s[k] = sep
    THEN LET k == CHOOSE j \in 1..Len(s) : s[j] = sep /\ \A h \in 1..(j - 1) : s[h] # sep
         IN  <<SubSeq(s, 1, k - 1)>> \o split(SubSeq(s, k + 1, Len(s)), sep)
    ELSE <<s>>

\* String.prototype.trim: spaces are the only white space of the alphabet.
RECURSIVE trim(_)
trim(s) ==
    IF s # <<>> /\ Head(s) = " " THEN trim(Tail(s))
    ELSE IF s # <<>> /\ s[Len(s)] = " " THEN trim(SubSeq(s, 1, Len(s) - 1))
    ELSE s

\* String.prototype.startsWith('--')
startsWithDashes(s) == Len(s) >= 2 /\ s[1] = "-" /\ s[2] = "-"

\* parts.slice(1).map(word => word[0].toUpperCase() + word.slice(1)).join('')
\* for words that are not empty.
RECURSIVE capitalised(_)
capitalised(words) ==
    IF words = <<>> THEN <<>>
    ELSE <<toUpperCase(Head(words)[1])>> \o Tail(Head(words)) \o capitalised(Tail(words))

\* What a call returns, or that it threw.
Returned(v) == [threw |-> FALSE, value |-> v]
Threw == [threw |-> TRUE, value |-> <<>>]

\* css_property_to_camelcase(property). word[0] of an empty word is undefined,
\* and undefined.toUpperCase() throws a TypeError.
css_property_to_camelcase(property) ==
    IF property = <<"f", "l", "o", "a", "t">>
    THEN Returned(<<"c", "s", "s", "F", "l", "o", "a", "t">>)
    ELSE IF property = <<"o", "f", "f", "s", "e", "t">>
    THEN Returned(<<"c", "s", "s", "O", "f", "f", "s", "e", "t">>)
    ELSE IF startsWithDashes(property) THEN Returned(property)
    ELSE LET parts == split(property, "-")
         IN  IF Len(parts) = 1 THEN Returned(parts[1])
             ELSE IF \E k \in 2..Len(parts) : parts[k] = <<>> THEN Threw
             ELSE Returned(parts[1] \o capitalised(Tail(parts)))

\* The empty keyframe {}.
EmptyKeyframe == [p \in {} |-> <<>>]

\* keyframe[property] = value
Put(keyframe, property, value) ==
    [p \in DOMAIN keyframe \cup {property} |->
        IF p = property THEN value ELSE keyframe[p]]

\* The loop of css_to_keyframe over the parts that are left.
RECURSIVE css_to_keyframe_loop(_, _)
css_to_keyframe_loop(parts, keyframe) ==
    IF parts = <<>> THEN Returned(keyframe)
    ELSE LET fields == split(Head(parts), ":")
             property == fields[1]
         IN  IF property = <<>> \/ Len(fields) < 2 THEN Returned(keyframe)
             ELSE LET formatted_property == css_property_to_camelcase(trim(property))
                  IN  IF formatted_property.threw THEN Threw
                      ELSE css_to_keyframe_loop(Tail(parts),
                               Put(keyframe, formatted_property.value, trim(fields[2])))

\* css_to_keyframe(css)
css_to_keyframe(css) == css_to_keyframe_loop(split(css, ";"), EmptyKeyframe)

TranslatorInit ==
    /\ Initial(Declared([transition |-> "fadeSlide", once |-> TRUE, mode |-> "hover"]))
    /\ destroyCalls = 0
    /\ updates = 0
    /\ last = "translate"
    /\ driver = NoDriver
    /\ \E text \in Texts(MaxLen) \cup ExampleTexts :
           translator = [op |-> "given", input |-> text, result |-> Returned(<<>>)]

\* The text is translated as a css text.
Translate ==
    /\ translator.op = "given"
    /\ translator' = [translator EXCEPT !.op = "css_to_keyframe",
                                        !.result = css_to_keyframe(translator.input)]
    /\ Install(Declared([transition |-> "fadeSlide", once |-> TRUE, mode |-> "hover"]))
    /\ UNCHANGED <<destroyCalls, updates, last, driver>>

\* The text is converted as a property name.
Camelcase ==
    /\ translator.op = "given"
    /\ translator' = [translator EXCEPT !.op = "css_property_to_camelcase",
                                        !.result = css_property_to_camelcase(translator.input)]
    /\ Install(Declared([transition |-> "fadeSlide", once |-> TRUE, mode |-> "hover"]))
    /\ UNCHANGED <<destroyCalls, updates, last, driver>>

TranslatorNext ==
    \/ Translate
    \/ Camelcase

TranslatorSpec == TranslatorInit /\ [][TranslatorNext]_vars

\* ------------------------------------------------------------ observations

\* The node is rendered: its display is not none.
NodeVisible == ComputedDisplay(State) # "none"

\* The native animations that are playing.
Running == {a \in 1..Len(anims) : anims[a].state = "running"}

\* The runs of the Animation Driver started so far (one delay stage each).
DriverRuns == {a \in 1..Len(anims) : anims[a].kind = "delay"}

\* ------------------------------------------------------------------ claims

\* C1: in viewport mode, in every reachable state, the placeholder is attached
\* to the DOM iff the node has display:none, and at most one placeholder is
\* attached (exactly one of placeholder and node contributes to layout).
\* Stated for the states in which no start_animation call is suspended, so
\* the microtask gap between removing the placeholder and restoring the
\* node's display is not what refutes it.
C1_ExactlyOneBox ==
    (mode = "viewport" /\ pending = <<>>) =>
        /\ Cardinality(attached) <= 1
        /\ (attached # {}) <=> (nodeDisplay = "none")

\* C2: after destroy() returns, the node is displayed and no placeholder of
\* the orchestrator remains attached.
C2_DestroyLeavesNodeVisible ==
    last = "destroy" => (NodeVisible /\ attached = {})

\* C3: a second destroy() right after the first does not throw, changes
\* nothing of the DOM and the orchestrator state, and leaves the node visible.
C3_DestroyIdempotent ==
    [][(last = "destroy" /\ last' = "destroy" /\ destroyCalls' = 2) =>
          (State' = State /\ ~threw' /\ NodeVisible')]_vars

\* The part of C3 the code keeps: the second destroy() changes nothing and
\* does not throw.
C3_SecondDestroyChangesNothing ==
    [][(last = "destroy" /\ last' = "destroy" /\ destroyCalls' = 2) =>
          (State' = State /\ ~threw')]_vars

\* C4: in viewport mode with once = true, an intersecting entry that finds
\* animated false queues exactly one start of the Animation Driver and
\* disconnects the observer; an entry that finds animated true starts nothing;
\* each resumed start creates exactly one driver run; and without update()
\* the number of driver runs started since attach is at most one.
C4_OnceStartsOneRun ==
    /\ [][(last' = "intersect" /\ mode = "viewport" /\ once) =>
            /\ observer \notin connected'
            /\ ~threw'
            /\ anims' = anims
            /\ IF animated
               THEN pending' = pending
               ELSE pending' = <<[pc |-> "tick1", config |-> transition,
                                  viewport |-> TRUE]>>]_vars
    /\ [][(last' = "tick" /\ Head(pending).pc = "tick2") =>
            DriverRuns' = DriverRuns \cup {Len(anims) + 1}]_vars
    /\ [](updates = 0 /\ mode = "viewport" /\ once => Cardinality(DriverRuns) <= 1)

\* C4 witness: the first entry's run is playing, the observer is disconnected,
\* and no second run was started.
C4_Witness ==
    /\ mode = "viewport" /\ once /\ updates = 0 /\ destroyCalls = 0
    /\ animated
    /\ connected = {}
    /\ Cardinality(DriverRuns) = 1
    /\ animation # 0
    /\ anims[animation].state = "running"

\* C5: in viewport mode with once = false, every intersecting entry leaves the
\* observer connected and retriggers without throwing: it queues a new start
\* of the Animation Driver (whose resumption aborts the run in flight).
C5_RetriggerRestarts ==
    (last = "intersect" /\ mode = "viewport" /\ ~once) =>
        /\ ~threw
        /\ observer \in connected
        /\ pending # <<>>

\* C6: after update() returns, no animation built from the pre-update
\* transition is started or playing on the node: every playing animation was
\* built from the current transition.
C6_UpdateAbortsOldAnimation ==
    updates > 0 => \A a \in Running : anims[a].trans = transition

\* C7: right after update(newConfig) the orchestrator state (animated, hovered,
\* observers, listeners, placeholders, node display, suspended starts) is that
\* of a freshly attached orchestrator with the new configuration.
C7_UpdateIsReattach ==
    last = "update" =>
        LET fresh == microanimation([transition |-> transition, once |-> once, mode |-> mode])
        IN  /\ animated = fresh.animated
            /\ hovered = fresh.hovered
            /\ listeners = fresh.listeners
            /\ Cardinality(connected) = Cardinality(fresh.connected)
            /\ Cardinality(attached) = Cardinality(fresh.attached)
            /\ nodeDisplay = fresh.nodeDisplay
            /\ pending = fresh.pending
            /\ Running = {}

C9_AtMostOneAnimation ==
    Cardinality(Running) <= 1

\* C10: after update() to a mode other than hover, mouseenter and mouseleave
\* change no orchestrator state and start no animation; only the observer
\* created by the last setup() can be connected; after destroy() no observer
\* is connected and no listener is registered.
C10_ReleasedOrSupplanted ==
    [][/\ (last' \in {"mouseenter", "mouseleave"} /\ mode # "hover" /\ updates > 0)
            => State' = State
       /\ connected' \subseteq {observer'}
       /\ last' = "destroy" => (connected' = {} /\ ~listeners')]_vars

\* C11: animated becomes true only by the viewport trigger or the immediate
\* trigger (the observer callback, or setup() run at attach or by update());
\* and it returns to false only while the mode is hover.
C11_AnimatedOnlyResetInHover ==
    [][/\ (~animated /\ animated') => last' \in {"intersect", "update"}
       /\ (animated /\ ~animated') => mode' = "hover"]_vars

\* C12: in viewport mode, right after setup() (at attach and after update()),
\* the placeholder's display, part of its layout footprint, is the display
\* the node has when it is displayed.
C12_PlaceholderFootprint ==
    (mode = "viewport" /\ last \in {"attach", "update"}) =>
        placeholders[placeholder] = NaturalDisplay

\* C18: when a start_animation call made in viewport mode starts the
\* Animation Driver, the placeholder has been removed, the node's display has
\* been restored from the placeholder (it is not none) and the descriptor's
\* t=0 keyframe has been applied to the node's style.
C18_DriverStartsOnDisplayedNode ==
    [][(last' = "tick" /\ Head(pending).pc = "tick2" /\ Head(pending).viewport) =>
          /\ placeholder \notin attached
          /\ nodeDisplay # "none"
          /\ nodeKeyframe = Head(pending).config]_vars

\* ------------------------------------------------ claims about the driver

\* What an un-aborted run of the driver does, in order.
ExpectedLog(d) ==
    <<"animate:delay", "finish:delay", "animate:main", "finish:main">> \o
    (IF d.tick THEN <<"tick">> ELSE <<>>) \o <<"onFinish">>

IsPrefix(s, t) == Len(s) <= Len(t) /\ s = SubSeq(t, 1, Len(s))

\* The entries of a log that are calls made by the driver after animate() returned.
Calls(log) == SelectSeq(log, LAMBDA e : e \in {"animate:main", "tick", "onFinish"})

ReverseSeq(s) == [k \in 1..Len(s) |-> s[Len(s) + 1 - k]]

\* C13: the driver's stages run in order: the delay stage finishes, then the
\* main stage is played, then on its finish tick(1, 0) (if any) and then
\* onFinish are called; a run that reached its end called onFinish exactly once.
C13_StagesInOrder ==
    /\ IsPrefix(driver.log, ExpectedLog(driver))
    /\ driver.stage = "finished" => driver.log = ExpectedLog(driver)
    /\ driver.stage # "finished" => Calls(driver.log) \in {<<>>, <<"animate:main">>}

C13_Witness ==
    driver.stage = "finished" /\ driver.tick /\ driver.aborts = 0 /\ driver.delay = 200

\* C14: after abort() neither onFinish nor the tick hook is called and the main
\* stage is not started, whatever the stage abort() was called in, and a
\* second abort() changes nothing.
C14_AbortIsFinal ==
    [][driver.aborts >= 1 =>
          /\ Calls(driver'.log) = Calls(driver.log)
          /\ driver'.aborts # driver.aborts =>
                 [driver' EXCEPT !.aborts = 1] = [driver EXCEPT !.aborts = 1]]_vars

C14_Witness ==
    driver.aborts = 2 /\ driver.stage = "delay" /\ driver.hover # <<>>

\* C15: a run that is not aborted, for delay 200 and duration 0 as for every
\* other delay and duration, reaches the main stage and then calls onFinish.
C15_RunTerminates ==
    /\ <>(driver.aborts > 0 \/ driver.stage = "main")
    /\ <>(driver.aborts > 0 \/ (driver.stage = "finished" /\ Calls(driver.log) # <<>>
                                /\ driver.log[Len(driver.log)] = "onFinish"))

C15_Witness ==
    /\ driver.delay = 200 /\ driver.duration = 0 /\ driver.css
    /\ driver.stage = "finished" /\ driver.aborts = 0

\* C19: the main stage plays n + 1 keyframes, n the least whole number of
\* sixtieths of a second covering the duration, keyframe i being
\* css(t, 1 - t) for t = easing(i / n); the first is the t = 0 state, the last the
\* t = 1 state, and every t is a defined progress value, also for duration 0.
C19_MainKeyframes ==
    (driver.stage \in {"main", "finished"} /\ driver.css) =>
        /\ driver.n * 1000 >= driver.duration * 60
        /\ driver.n = 0 \/ (driver.n - 1) * 1000 < driver.duration * 60
        /\ Len(driver.keyframes) = driver.n + 1
        /\ \A k \in 1..Len(driver.keyframes) :
              /\ driver.keyframes[k] = Sample(driver.easing, k - 1, driver.n)
              /\ driver.keyframes[k].t # NaN
        /\ driver.keyframes[1] = Keyframe(<<0, 1>>, <<1, 1>>)
        /\ driver.keyframes[Len(driver.keyframes)] = Keyframe(<<1, 1>>, <<0, 1>>)

\* C20 as stated: the hover keyframes of start_hover_animation and of
\* initHoverAnimation are the driver's main-stage keyframes, in the same order.
C20_HoverSamplesAsDriver ==
    (driver.stage \in {"main", "finished"} /\ driver.css) =>
        /\ driver.hover # <<>> => driver.hover[1] = driver.keyframes
        /\ driver.initHover # <<>> => driver.initHover[1] = driver.keyframes

\* C20 amended: start_hover_animation builds the driver's main-stage keyframes
\* in the opposite order (from i = n down to i = 0), and initHoverAnimation
\* builds the single keyframe css(1, 1).
C20_HoverSamplesReversed ==
    (driver.stage \in {"main", "finished"} /\ driver.css) =>
        /\ driver.hover # <<>> => driver.hover[1] = ReverseSeq(driver.keyframes)
        /\ driver.initHover # <<>> =>
               driver.initHover[1] = <<Keyframe(<<1, 1>>, <<1, 1>>)>>

C20_Witness ==
    /\ driver.stage = "main" /\ driver.css /\ driver.n = 2
    /\ driver.hover # <<>> /\ driver.initHover # <<>>

\* -------------------------------------------- claims about the translator

\* A property name: no separator of a css text and no white space in it.
IsName(s) == \A k \in 1..Len(s) : s[k] \notin {":", ";", " "}

\* The segments of a name joined without hyphens, the first letter of each
\* segment after the first in upper case.
Camel(s) ==
    SelectSeq([k \in 1..Len(s) |->
                  IF k > 1 /\ s[k - 1] = "-" THEN toUpperCase(s[k]) ELSE s[k]],
              LAMBDA c : c # "-")

\* The first pair of a css text has no property or no value.
FirstPairMissing(css) ==
    LET fields == split(split(css, ";")[1], ":")
    IN  fields[1] = <<>> \/ Len(fields) < 2

\* C16: css_to_keyframe never throws; it maps "a:1;b:2;" to {a: "1", b: "2"},
\* "float:left;" to {cssFloat: "left"}, "offset:x;" to {cssOffset: "x"}, keeps a
\* name starting with "--", maps "a;" to {}, and stops at the first pair that
\* has no property or no value.
C16_CssToKeyframe ==
    translator.op = "css_to_keyframe" =>
        /\ ~translator.result.threw
        /\ translator.input = <<"a", ":", "1", ";", "b", ":", "2", ";">> =>
              translator.result.value =
                  Put(Put(EmptyKeyframe, <<"a">>, <<"1">>), <<"b">>, <<"2">>)
        /\ translator.input = <<"f", "l", "o", "a", "t", ":", "l", "e", "f", "t", ";">> =>
              translator.result.value =
                  Put(EmptyKeyframe, <<"c", "s", "s", "F", "l", "o", "a", "t">>,
                      <<"l", "e", "f", "t">>)
        /\ translator.input = <<"o", "f", "f", "s", "e", "t", ":", "x", ";">> =>
              translator.result.value =
                  Put(EmptyKeyframe, <<"c", "s", "s", "O", "f", "f", "s", "e", "t">>, <<"x">>)
        /\ translator.input = <<"-", "-", "x", ":", "1", ";">> =>
              translator.result.value = Put(EmptyKeyframe, <<"-", "-", "x">>, <<"1">>)
        /\ FirstPairMissing(translator.input) => DOMAIN translator.result.value = {}

\* C17: css_property_to_camelcase does not throw and returns the segments of
\* the name joined without hyphens, the first letter of each segment after
\* the first in upper case, also for a name with an empty segment.
C17_CamelCase ==
    (/\ translator.op = "css_property_to_camelcase"
     /\ IsName(translator.input)
     /\ translator.input \notin {<<"f", "l", "o", "a", "t">>, <<"o", "f", "f", "s", "e", "t">>}
     /\ ~startsWithDashes(translator.input)) =>
        /\ ~translator.result.threw
        /\ translator.result.value = Camel(translator.input)

\* ------------------------------------- claims about triggers and teardown

\* C21: redundant triggers change nothing and throw nothing: a mouseleave
\* while hovered is false leaves hovered, animated and the hover animation as
\* they are; a mouseenter while hovered is true starts no second hover
\* animation; a start_animation call (made by an intersecting entry) while
\* animated and once are true leaves the DOM and the current animation as
\* they are.
C21_RedundantTriggersAreNoOps ==
    [][/\ (last' = "mouseleave" /\ ~hovered) =>
              /\ ~hovered' /\ animated' = animated /\ ~threw'
              /\ hoverAnimation' = hoverAnimation /\ anims' = anims
       /\ (last' = "mouseenter" /\ hovered) =>
              /\ hovered' /\ ~threw'
              /\ hoverAnimation' = hoverAnimation /\ anims' = anims
       /\ (last' = "intersect" /\ animated /\ once) =>
              /\ animated' /\ ~threw'
              /\ attached' = attached /\ placeholders' = placeholders
              /\ nodeDisplay' = nodeDisplay /\ nodeKeyframe' = nodeKeyframe
              /\ animation' = animation /\ anims' = anims /\ pending' = pending]_vars

\* A mouseenter arrived after the only hover animation had finished and
\* while hovered was still true.
C21_Witness ==
    /\ last = "mouseenter" /\ hovered /\ listeners
    /\ Len(anims) = 1 /\ anims[1].kind = "hover" /\ anims[1].state = "finished"

\* C22: once destroy() has returned, no step of the orchestrator creates an
\* animation on the node or changes the node's style or the DOM, also when
\* destroy() arrived while start_animation was suspended or a hover animation
\* was in flight; and no animation the orchestrator created is still running.
C22_NothingAfterDestroy ==
    [][/\ destroyCalls' >= 1 => Running' = {}
       /\ (destroyCalls >= 1 /\ last' # "destroy") =>
              /\ Len(anims') = Len(anims)
              /\ nodeDisplay' = nodeDisplay
              /\ nodeKeyframe' = nodeKeyframe
              /\ attached' = attached]_vars

\* C23: in viewport mode an intersecting entry leads to the node being
\* displayed (unless the orchestrator is destroyed or updated first), also
\* when setup() hid the node in an update() after a completed animation with
\* once = true: the node does not stay hidden.
C23_HiddenNodeIsShown ==
    (last = "intersect" /\ mode = "viewport" /\ destroyCalls = 0)
        ~> (NodeVisible \/ destroyCalls > 0 \/ last = "update")

====
